---------------------------- MODULE Spec2Model ----------------------------
(***************************************************************************)
(* The in-memory todo service of backend/main.go: a TodoServer holding a   *)
(* map of tasks behind a sync.RWMutex, with AddTask, GetTasks and          *)
(* DeleteTask called concurrently by request goroutines.                   *)
(*                                                                         *)
(* Strings are sequences of runs of one character, so that TrimSpace and   *)
(* len are computed, not assumed, on texts of 500 characters.              *)
(***************************************************************************)
EXTENDS Integers, Sequences, FiniteSets, TLC

(* ------------------------------ bounds -------------------------------- *)

\* Number of request goroutines that may be inside the server at once.
NumProcs == 2

\* Total number of calls started in one behaviour.
MaxCalls == 4

\* The clock (time.Now().Unix()) runs from 1 to MaxTime.
MaxTime == 2

\* rand.Int is drawn from 0..MaxRand-1 instead of 0..61.
MaxRand == 2

\* Total number of HTTP requests in one behaviour of the handler.
MaxRequests == 2

\* Total number of requests the TodoList component sends in one behaviour.
MaxUIRequests == 9

\* Total number of calls in one behaviour checked for progress.
MaxLiveCalls == 3

\* Total number of calls in one behaviour in which GetTasks ranges over the
\* map entry by entry.
MaxRangeCalls == 3

(* ------------------------- program constants -------------------------- *)

MaxTaskTextLength == 500

MinTaskTextLength == 1

\* for i := 0; i < 10; i++
MaxAttempts == 10

\* b := make([]byte, 8)
IDLen == 8

charset ==
    << "a","b","c","d","e","f","g","h","i","j","k","l","m",
       "n","o","p","q","r","s","t","u","v","w","x","y","z",
       "A","B","C","D","E","F","G","H","I","J","K","L","M",
       "N","O","P","Q","R","S","T","U","V","W","X","Y","Z",
       "0","1","2","3","4","5","6","7","8","9" >>

\* The characters unicode.IsSpace accepts, among those the inputs use.
Whitespace == {" ", "\t", "\n", "\r"}

CodeInvalidArgument == "invalid_argument"

CodeNotFound == "not_found"

CodeInternal == "internal"

ErrTaskTextEmpty == "task text cannot be empty"

ErrTaskTextTooLong == "task text exceeds maximum length"

ErrTaskNotFound == "task not found"

ErrInvalidTaskID == "invalid task ID"

ErrNoUniqueID == "failed to generate unique task ID"

Nil == "nil"

\* net/http status codes the handler writes.
StatusOK == 200

StatusBadRequest == 400

StatusNotFound == 404

StatusMethodNotAllowed == 405

StatusInternalServerError == 500

\* No status line: the handler's goroutine panicked before it wrote one,
\* and net/http closes the connection.
NoStatus == 0

TodoServiceName == "todo.v1.TodoService"

(* ------------------------------ strings ------------------------------- *)

\* A string is the sequence of its runs: Run(c, n) is the character c
\* repeated n >= 1 times, so a text of 500 characters is one run.
Run(c, n) == [c |-> c, n |-> n]

\* strings.Repeat
Repeat(c, n) == IF n = 0 THEN << >> ELSE << Run(c, n) >>

\* len(s): the number of characters (bytes: the inputs are ASCII).
RECURSIVE StrLen(_)
StrLen(s) == IF s = << >> THEN 0 ELSE Head(s).n + StrLen(Tail(s))

SetMin(S) == CHOOSE x \in S : \A y \in S : x <= y

SetMax(S) == CHOOSE x \in S : \A y \in S : x >= y

\* strings.TrimSpace: the slice between the first and the last character
\* that is not white space; the empty string when there is none.
TrimSpace(s) ==
    LET keep == {k \in 1..Len(s) : s[k].c \notin Whitespace}
    IN  IF keep = {} THEN << >> ELSE SubSeq(s, SetMin(keep), SetMax(keep))

(* ------------------------------ inputs -------------------------------- *)

Procs == 1..NumProcs

\* Request texts: empty, white space only, a short text with an inner
\* space, one more than the maximum, and exactly the maximum padded with
\* white space on both sides (raw length 503).
TextInputs ==
    { << >>,
      << Run(" ", 1), Run("\t", 1), Run("\n", 1), Run(" ", 2) >>,
      << Run("a", 1), Run(" ", 1), Run("b", 1) >>,
      Repeat("a", MaxTaskTextLength + 1),
      << Run(" ", 1), Run("\t", 1) >> \o Repeat("a", MaxTaskTextLength)
          \o << Run("\n", 1) >> }

\* generateID: eight bytes, each charset[n] with n from rand.Int(62).  The
\* model's random source returns the same n < MaxRand for the eight bytes.
GenIDs == { Repeat(charset[n + 1], IDLen) : n \in 0..(MaxRand - 1) }

\* An id no AddTask ever issues: it is longer than eight characters.
NeverIssued == Repeat("x", IDLen + 3)

\* Request ids: the ids AddTask can issue, one of them padded with white
\* space, the empty string, white space only, and an id never issued.
IdInputs ==
    GenIDs \cup
    { << >>, Repeat(" ", 3), NeverIssued,
      << Run(" ", 1) >> \o Repeat(charset[1], IDLen) \o << Run(" ", 1) >> }

(* ------------------------------- state -------------------------------- *)

VARIABLES
    tasks,      \* s.tasks: map from id to *Task
    mu,         \* s.mu: [writer |-> holder of Lock or 0, readers |-> holders of RLock]
    now,        \* time.Now().Unix()
    pc,         \* where each goroutine stands in its call
    req,        \* each goroutine's request
    last,       \* the call that returned in the latest step (its request and
                \* response), NoReq when that step returned none
    calls,      \* number of calls started
    issued,     \* how many times AddTask has returned each id
    deleted,    \* ids removed by a successful DeleteTask so far
    ui          \* the TodoList component in a browser: its state and its
                \* requests under way

vars == << tasks, mu, now, pc, req, last, calls, issued, deleted, ui >>

NoReq == [op |-> "none"]

\* todov1.Task
Task(id, text, createdAt) == [Id |-> id, Text |-> text, CreatedAt |-> createdAt]

\* return nil, connect.NewError(code, err)
\* (tries: the candidate ids a failed AddTask went through, 0 for the rest)
Error(r, code, err) ==
    [op |-> r.op, req |-> r, code |-> code, message |-> err, tries |-> 0]

\* return connect.NewResponse(msg), nil
Response(r, msg) == [op |-> r.op, req |-> r, code |-> "ok", msg |-> msg]

\* The call ends in a run-time panic (nil pointer dereference): it returns
\* nothing, its deferred calls run, and the panic goes up to its caller.
Panic(r) == [op |-> r.op, req |-> r, code |-> "panic"]

(* ------------------------------ RWMutex ------------------------------- *)

\* Lock that excludes nobody.
CanLock_always == TRUE

\* s.mu.Lock() can return.
CanLock == mu.writer = 0 /\ mu.readers = {}

\* RLock that does not wait for the writer.
CanRLock_always == TRUE

\* s.mu.RLock() can return.
CanRLock == mu.writer = 0

Locked(p) == [mu EXCEPT !.writer = p]

\* Unlock that leaves the lock held.
Unlocked_never == mu

\* s.mu.Unlock(), deferred in AddTask and DeleteTask.
Unlocked == [mu EXCEPT !.writer = 0]

RLocked(p) == [mu EXCEPT !.readers = @ \cup {p}]

RUnlocked(p) == [mu EXCEPT !.readers = @ \ {p}]

(* ------------------------------ callers ------------------------------- *)

\* TodoList before its first effect runs: the useState defaults (tasks [],
\* loading false, error ''), no request sent (sent counts them), none
\* under way (flight), none failed so far (failed).
Rendered ==
    [tasks |-> << >>, loading |-> FALSE, error |-> "", mounted |-> FALSE,
     sent |-> 0, flight |-> {}, failed |-> FALSE]

\* NewTodoServer, with no call under way, and the page just rendered.
Init ==
    /\ ui = Rendered
    /\ tasks = << >>
    /\ mu = [writer |-> 0, readers |-> {}]
    /\ now = 1
    /\ pc = [p \in Procs |-> "idle"]
    /\ req = [p \in Procs |-> NoReq]
    /\ last = NoReq
    /\ calls = 0
    /\ issued = [id \in GenIDs |-> 0]
    /\ deleted = {}

\* A new request is served by the lowest-numbered goroutine that is free:
\* free goroutines hold no state, so which of them serves it is immaterial.
Free(p) ==
    /\ pc[p] = "idle"
    /\ \A q \in Procs : q < p => pc[q] # "idle"
    /\ calls < MaxCalls

\* resp, err := h.svc.AddTask(...) (GetTasks, DeleteTask alike) and what
\* follows it in the handler: an error of any code is answered by
\* http.Error with StatusInternalServerError, a response is written with
\* w.Write, which sends StatusOK; a panic of the service goes through the
\* handler, which writes nothing.
handleStatus(r) ==
    IF r.code = "panic" THEN NoStatus
    ELSE IF r.code # "ok" THEN StatusInternalServerError
    ELSE StatusOK

\* The call of p returns r to its caller, the handler of the request, which
\* answers with a status.
Returns(p, r) ==
    /\ last' = r @@ [status |-> handleStatus(r)]
    /\ pc' = [pc EXCEPT ![p] = "idle"]
    /\ req' = [req EXCEPT ![p] = NoReq]

(* ------------------------------ AddTask ------------------------------- *)

\* validateTaskText measuring the text as given, not the trimmed text.
validateTaskText_untrimmed(text) ==
    IF StrLen(text) < MinTaskTextLength THEN ErrTaskTextEmpty
    ELSE IF StrLen(text) > MaxTaskTextLength THEN ErrTaskTextTooLong
    ELSE Nil

\* validateTaskText with the maximum itself refused (>= for >).
validateTaskText_exclusive(text) ==
    LET trimmed == TrimSpace(text)
    IN  IF StrLen(trimmed) < MinTaskTextLength THEN ErrTaskTextEmpty
        ELSE IF StrLen(trimmed) >= MaxTaskTextLength THEN ErrTaskTextTooLong
        ELSE Nil

\* validateTaskText without the upper limit.
validateTaskText_unbounded(text) ==
    IF StrLen(TrimSpace(text)) < MinTaskTextLength THEN ErrTaskTextEmpty ELSE Nil

validateTaskText(text) ==
    LET trimmed == TrimSpace(text)
    IN  IF StrLen(trimmed) < MinTaskTextLength THEN ErrTaskTextEmpty
        ELSE IF StrLen(trimmed) > MaxTaskTextLength THEN ErrTaskTextTooLong
        ELSE Nil

\* AddTask that validates the text once it has the lock: the return on the
\* validation error waits for the lock.
AddTaskInvoke_underLock(p, text) ==
    /\ Free(p)
    /\ LET r == [op |-> "AddTask", text |-> text]
       IN  IF validateTaskText(text) # Nil
           THEN /\ CanLock
                /\ Returns(p, Error(r, CodeInvalidArgument, validateTaskText(text)))
           ELSE /\ req' = [req EXCEPT ![p] = r]
                /\ pc' = [pc EXCEPT ![p] = "add_lock"]
                /\ last' = NoReq
    /\ calls' = calls + 1
    /\ UNCHANGED << tasks, mu, now, issued, deleted, ui >>

\* AddTask(text) up to s.mu.Lock(): validation, and the early return on
\* its error.
AddTaskInvoke(p, text) ==
    /\ Free(p)
    /\ LET r == [op |-> "AddTask", text |-> text]
       IN  IF validateTaskText(text) # Nil
           THEN Returns(p, Error(r, CodeInvalidArgument, validateTaskText(text)))
           ELSE /\ req' = [req EXCEPT ![p] = r]
                /\ pc' = [pc EXCEPT ![p] = "add_lock"]
                /\ last' = NoReq
    /\ calls' = calls + 1
    /\ UNCHANGED << tasks, mu, now, issued, deleted, ui >>

AddTaskCall(p) == \E text \in TextInputs : AddTaskInvoke(p, text)

\* s.mu.Lock() in AddTask.
AddTaskLock(p) ==
    /\ pc[p] = "add_lock"
    /\ CanLock
    /\ mu' = Locked(p)
    /\ pc' = [pc EXCEPT ![p] = "add_loop"]
    /\ last' = NoReq
    /\ UNCHANGED << tasks, now, req, calls, issued, deleted, ui >>

\* generateID(): one of the ids the random source can produce.
generateID == GenIDs

\* n, _ := rand.Int(rand.Reader, ...): rand.Int returns (nil, err) when the
\* read of rand.Reader fails; the error is dropped and n.Int64() then
\* dereferences the nil n.
RandFails == TRUE

\* The candidate id is never looked up: a taken id is overwritten.
Exists_never(id) == FALSE

\* The id is looked up with white space cut from both ends.
Exists_trimmed(id) == TrimSpace(id) \in DOMAIN tasks

\* if _, exists := s.tasks[task.Id]; !exists
Exists(id) == id \in DOMAIN tasks

\* The loop that gives up at the first candidate that is taken.
RetryLoop_once(i) ==
    { [free |-> TRUE, id |-> id] : id \in {c \in generateID : ~Exists(c)} }
    \cup (IF \E c \in generateID : Exists(c)
          THEN { [free |-> FALSE, panic |-> FALSE, tries |-> i + 1] } ELSE {})

\* for i := 0; i < 10; i++ { ... }: what the loop can come to from
\* iteration i on.  An iteration whose candidate is free leaves the loop
\* with it; one whose candidate exists goes on to iteration i + 1; one in
\* which generateID panics ends the call; the loop ends without a task
\* when i reaches 10, after i candidates.
RECURSIVE RetryLoop(_)
RetryLoop(i) ==
    IF i < MaxAttempts
    THEN { [free |-> TRUE, id |-> id] : id \in {c \in generateID : ~Exists(c)} }
         \cup (IF \E c \in generateID : Exists(c) THEN RetryLoop(i + 1) ELSE {})
         \cup (IF RandFails
               THEN { [free |-> FALSE, panic |-> TRUE, tries |-> 0] } ELSE {})
    ELSE { [free |-> FALSE, panic |-> FALSE, tries |-> i] }

\* NewTask keeping the text as given.
NewTask_untrimmed(p, id) == Task(id, req[p].text, now)

\* The task an iteration builds from its candidate id.
NewTask(p, id) == Task(id, TrimSpace(req[p].text), now)

\* The retry loop up to the candidate it finds free, or to its end: then
\* Internal is returned and the deferred Unlock runs.  The deferred Unlock
\* runs as well when generateID panics.
AddTaskLoop(p) ==
    /\ pc[p] = "add_loop"
    /\ \E out \in RetryLoop(0) :
        IF out.free
        THEN /\ req' = [req EXCEPT ![p] =
                          [op |-> "AddTask", text |-> req[p].text,
                           task |-> NewTask(p, out.id)]]
             /\ pc' = [pc EXCEPT ![p] = "add_insert"]
             /\ last' = NoReq
             /\ mu' = mu
        ELSE /\ IF out.panic
                THEN Returns(p, Panic([op |-> "AddTask", text |-> req[p].text]))
                ELSE Returns(p, [Error([op |-> "AddTask", text |-> req[p].text],
                                       CodeInternal, ErrNoUniqueID)
                                    EXCEPT !.tries = out.tries])
             /\ mu' = Unlocked
    /\ UNCHANGED << tasks, now, calls, issued, deleted, ui >>

\* The map is replaced by one that holds the new task alone.
Insert_alone(task) == [k \in {task.Id} |-> task]

\* s.tasks[task.Id] = task
Insert(task) ==
    [k \in DOMAIN tasks \cup {task.Id} |-> IF k = task.Id THEN task ELSE tasks[k]]

\* The candidate was free: the task is stored and returned, and the
\* deferred Unlock runs.
AddTaskInsert(p) ==
    /\ pc[p] = "add_insert"
    /\ tasks' = Insert(req[p].task)
    /\ Returns(p, Response([op |-> "AddTask", text |-> req[p].text],
                           [task |-> req[p].task]))
    /\ issued' = [issued EXCEPT ![req[p].task.Id] = @ + 1]
    /\ mu' = Unlocked
    /\ UNCHANGED << now, calls, deleted, ui >>

(* ------------------------------ GetTasks ------------------------------ *)

\* GetTasks is called; its first statement is s.mu.RLock().
GetTasksCall(p) ==
    /\ Free(p)
    /\ req' = [req EXCEPT ![p] = [op |-> "GetTasks", deletedBefore |-> deleted]]
    /\ pc' = [pc EXCEPT ![p] = "get_rlock"]
    /\ calls' = calls + 1
    /\ last' = NoReq
    /\ UNCHANGED << tasks, mu, now, issued, deleted, ui >>

\* s.mu.RLock() in GetTasks.
GetTasksRLock(p) ==
    /\ pc[p] = "get_rlock"
    /\ CanRLock
    /\ mu' = RLocked(p)
    /\ pc' = [pc EXCEPT ![p] = "get_read"]
    /\ last' = NoReq
    /\ UNCHANGED << tasks, now, req, calls, issued, deleted, ui >>

\* The sequences that hold each element of S once.
Orders(S) ==
    { f \in [1..Cardinality(S) -> S] : \A x \in S : \E k \in DOMAIN f : f[k] = x }

\* for _, task := range s.tasks { tasks = append(tasks, task) }: the map is
\* ranged over in an order the runtime chooses.
RangeTasks == { [k \in DOMAIN o |-> tasks[o[k]]] : o \in Orders(DOMAIN tasks) }

\* The comparison turned round: oldest first.
Less_ascending(a, b) == a.CreatedAt < b.CreatedAt

\* func(i, j int) bool { return tasks[i].CreatedAt > tasks[j].CreatedAt }
Less(a, b) == a.CreatedAt > b.CreatedAt

\* sort.Slice: a permutation of the slice in which no element is less than
\* one before it; the sort is not stable, equal elements come in any order.
SortSlice(list) ==
    { r \in [DOMAIN list -> {list[k] : k \in DOMAIN list}] :
        /\ \A k \in DOMAIN list : \E m \in DOMAIN r : r[m] = list[k]
        /\ \A k, m \in DOMAIN r : k < m => ~Less(r[m], r[k]) }

\* What the loop over the map followed by sort.Slice can leave in tasks.
SortedTasks == UNION { SortSlice(list) : list \in RangeTasks }

\* GetTasks that answers NotFound when the store is empty.
GetTasksRead_failsOnEmpty(p) ==
    /\ pc[p] = "get_read"
    /\ IF tasks = << >>
       THEN Returns(p, Error(req[p], CodeNotFound, ErrTaskNotFound))
       ELSE \E sorted \in SortedTasks :
                Returns(p, Response(req[p], [tasks |-> sorted]))
    /\ mu' = RUnlocked(p)
    /\ UNCHANGED << tasks, now, calls, issued, deleted, ui >>

\* The body of GetTasks under the read lock, and the deferred RUnlock.
GetTasksRead(p) ==
    /\ pc[p] = "get_read"
    /\ \E sorted \in SortedTasks :
        Returns(p, Response(req[p], [tasks |-> sorted]))
    /\ mu' = RUnlocked(p)
    /\ UNCHANGED << tasks, now, calls, issued, deleted, ui >>

(* ----------------------------- DeleteTask ----------------------------- *)

\* The id compared with "" as given, not trimmed.
InvalidID_untrimmed(id) == id = << >>

\* if strings.TrimSpace(req.Msg.Id) == ""
InvalidID(id) == TrimSpace(id) = << >>

\* DeleteTask(id) up to s.mu.Lock(): the check of the id and its early
\* return.
DeleteTaskInvoke(p, id) ==
    /\ Free(p)
    /\ LET r == [op |-> "DeleteTask", id |-> id]
       IN  IF InvalidID(id)
           THEN Returns(p, Error(r, CodeInvalidArgument, ErrInvalidTaskID))
           ELSE /\ req' = [req EXCEPT ![p] = r]
                /\ pc' = [pc EXCEPT ![p] = "del_lock"]
                /\ last' = NoReq
    /\ calls' = calls + 1
    /\ UNCHANGED << tasks, mu, now, issued, deleted, ui >>

DeleteTaskCall(p) == \E id \in IdInputs : DeleteTaskInvoke(p, id)

\* s.mu.Lock() in DeleteTask.
DeleteTaskLock(p) ==
    /\ pc[p] = "del_lock"
    /\ CanLock
    /\ mu' = Locked(p)
    /\ pc' = [pc EXCEPT ![p] = "del_check"]
    /\ last' = NoReq
    /\ UNCHANGED << tasks, now, req, calls, issued, deleted, ui >>

\* if _, exists := s.tasks[req.Msg.Id]; !exists: NotFound is returned and
\* the deferred Unlock runs.
DeleteTaskCheck(p) ==
    /\ pc[p] = "del_check"
    /\ IF ~Exists(req[p].id)
       THEN /\ Returns(p, Error(req[p], CodeNotFound, ErrTaskNotFound))
            /\ mu' = Unlocked
       ELSE /\ pc' = [pc EXCEPT ![p] = "del_delete"]
            /\ last' = NoReq
            /\ UNCHANGED << req, mu >>
    /\ UNCHANGED << tasks, now, calls, issued, deleted, ui >>

\* The entry is left in the map.
Remove_nothing(id) == tasks

\* The map is emptied.
Remove_all(id) == << >>

\* delete(s.tasks, id)
Remove(id) == [k \in DOMAIN tasks \ {id} |-> tasks[k]]

\* The task is deleted and success returned; the deferred Unlock runs.
DeleteTaskDelete(p) ==
    /\ pc[p] = "del_delete"
    /\ tasks' = Remove(req[p].id)
    /\ Returns(p, Response(req[p], [success |-> TRUE]))
    /\ deleted' = deleted \cup {req[p].id}
    /\ mu' = Unlocked
    /\ UNCHANGED << now, calls, issued, ui >>

(* ------------------------------ the rest ------------------------------ *)

\* A second passes.  Only the loop of AddTask reads the clock: the seconds
\* that pass while no call is there are seen as passing once one is.
Tick ==
    /\ now < MaxTime
    /\ \E p \in Procs : pc[p] = "add_loop"
    /\ now' = now + 1
    /\ last' = NoReq
    /\ UNCHANGED << tasks, mu, pc, req, calls, issued, deleted, ui >>

Next ==
    \/ \E p \in Procs : AddTaskCall(p)
    \/ \E p \in Procs : AddTaskLock(p)
    \/ \E p \in Procs : AddTaskLoop(p)
    \/ \E p \in Procs : AddTaskInsert(p)
    \/ \E p \in Procs : GetTasksCall(p)
    \/ \E p \in Procs : GetTasksRLock(p)
    \/ \E p \in Procs : GetTasksRead(p)
    \/ \E p \in Procs : DeleteTaskCall(p)
    \/ \E p \in Procs : DeleteTaskLock(p)
    \/ \E p \in Procs : DeleteTaskCheck(p)
    \/ \E p \in Procs : DeleteTaskDelete(p)
    \/ Tick

Spec == Init /\ [][Next]_vars

\* Only AddTask is called, with texts that pass validation, by goroutines
\* that run concurrently.
ValidTexts == { text \in TextInputs : validateTaskText(text) = Nil }

NextAdd ==
    \/ \E p \in Procs : \E text \in ValidTexts : AddTaskInvoke(p, text)
    \/ \E p \in Procs : AddTaskLock(p)
    \/ \E p \in Procs : AddTaskLoop(p)
    \/ \E p \in Procs : AddTaskInsert(p)
    \/ Tick

SpecAdd == Init /\ [][NextAdd]_vars

\* Scheduling: a goroutine that can run does run, and a goroutine blocked
\* in Lock or RLock gets the lock if it stays free (weak fairness of every
\* step inside a call).  The calls of a behaviour are finitely many, so a
\* lock that is asked for does stay free in the end; with callers that
\* never stop, it is sync.RWMutex that keeps a waiting writer from being
\* overtaken by readers for ever.  Callers are not obliged to call.
Fairness ==
    \A p \in Procs :
        /\ WF_vars(AddTaskLock(p))
        /\ WF_vars(AddTaskLoop(p))
        /\ WF_vars(AddTaskInsert(p))
        /\ WF_vars(GetTasksRLock(p))
        /\ WF_vars(GetTasksRead(p))
        /\ WF_vars(DeleteTaskLock(p))
        /\ WF_vars(DeleteTaskCheck(p))
        /\ WF_vars(DeleteTaskDelete(p))

\* The calls that go as far as the lock: AddTask with a text that passes
\* validation, GetTasks, and DeleteTask with an id that is not blank.  The
\* other calls return from their first step.  MaxLiveCalls calls are made.
NextLocking ==
    \/ \E p \in Procs : \E text \in ValidTexts :
          calls < MaxLiveCalls /\ AddTaskInvoke(p, text)
    \/ \E p \in Procs : AddTaskLock(p)
    \/ \E p \in Procs : AddTaskLoop(p)
    \/ \E p \in Procs : AddTaskInsert(p)
    \/ \E p \in Procs : calls < MaxLiveCalls /\ GetTasksCall(p)
    \/ \E p \in Procs : GetTasksRLock(p)
    \/ \E p \in Procs : GetTasksRead(p)
    \/ \E p \in Procs : \E id \in GenIDs :
          calls < MaxLiveCalls /\ DeleteTaskInvoke(p, id)
    \/ \E p \in Procs : DeleteTaskLock(p)
    \/ \E p \in Procs : DeleteTaskCheck(p)
    \/ \E p \in Procs : DeleteTaskDelete(p)
    \/ Tick

FairSpec == Init /\ [][NextLocking]_vars /\ Fairness

(* ------------------- GetTasks, entry by entry ------------------------- *)

\* The tasks the loop of GetTasks has appended so far.
Appended(p) == IF "acc" \in DOMAIN req[p] THEN req[p].acc ELSE << >>

\* The keys the loop has still to visit.
Unvisited(p) == DOMAIN tasks \ { Appended(p)[k].Id : k \in DOMAIN Appended(p) }

\* One iteration of for _, task := range s.tasks: the runtime picks an
\* entry not yet visited, and the task is appended.
GetTasksRange(p) ==
    /\ pc[p] = "get_read"
    /\ \E k \in Unvisited(p) :
          req' = [req EXCEPT ![p] =
                    [op |-> "GetTasks", deletedBefore |-> req[p].deletedBefore,
                     acc |-> Append(Appended(p), tasks[k])]]
    /\ last' = NoReq
    /\ UNCHANGED << tasks, mu, now, pc, calls, issued, deleted, ui >>

\* The loop has ended: sort.Slice, the return, and the deferred RUnlock.
GetTasksSort(p) ==
    /\ pc[p] = "get_read"
    /\ Unvisited(p) = {}
    /\ \E sorted \in SortSlice(Appended(p)) :
          Returns(p, Response([op |-> "GetTasks",
                               deletedBefore |-> req[p].deletedBefore],
                              [tasks |-> sorted]))
    /\ mu' = RUnlocked(p)
    /\ UNCHANGED << tasks, now, calls, issued, deleted, ui >>

\* The calls that go as far as the lock, GetTasks reading the map one entry
\* in a step.  MaxRangeCalls calls are made.
NextRange ==
    \/ \E p \in Procs : \E text \in ValidTexts :
          calls < MaxRangeCalls /\ AddTaskInvoke(p, text)
    \/ \E p \in Procs : AddTaskLock(p)
    \/ \E p \in Procs : AddTaskLoop(p)
    \/ \E p \in Procs : AddTaskInsert(p)
    \/ \E p \in Procs : calls < MaxRangeCalls /\ GetTasksCall(p)
    \/ \E p \in Procs : GetTasksRLock(p)
    \/ \E p \in Procs : GetTasksRange(p)
    \/ \E p \in Procs : GetTasksSort(p)
    \/ \E p \in Procs : \E id \in GenIDs :
          calls < MaxRangeCalls /\ DeleteTaskInvoke(p, id)
    \/ \E p \in Procs : DeleteTaskLock(p)
    \/ \E p \in Procs : DeleteTaskCheck(p)
    \/ \E p \in Procs : DeleteTaskDelete(p)
    \/ Tick

SpecRange == Init /\ [][NextRange]_vars

(* --------------------------- the HTTP handler ------------------------- *)

\* A URL path is the sequence of its segments: /todo.v1.TodoService/AddTask
\* is << "todo.v1.TodoService", "AddTask" >>.
HasPrefix(path, prefix) ==
    /\ Len(path) >= Len(prefix)
    /\ SubSeq(path, 1, Len(prefix)) = prefix

TrimPrefix(path, prefix) ==
    IF HasPrefix(path, prefix)
    THEN SubSeq(path, Len(prefix) + 1, Len(path))
    ELSE path

\* Request methods, paths and bodies.  A body is JSON with one field or
\* with none ({}), or not JSON at all.
Methods == {"GET", "POST", "OPTIONS"}

Paths ==
    { << TodoServiceName, "AddTask" >>, << TodoServiceName, "GetTasks" >>,
      << TodoServiceName, "DeleteTask" >>, << TodoServiceName, "Unknown" >>,
      << "health" >> }

Bodies ==
    { [json |-> FALSE], [json |-> TRUE] }
    \cup { [json |-> TRUE, text |-> t] :
             t \in { << >>, << Run("a", 1), Run(" ", 1), Run("b", 1) >> } }
    \cup { [json |-> TRUE, id |-> i] : i \in GenIDs \cup { << >> } }

\* h.pju.Unmarshal(data, &req): an error for what is not JSON and for a
\* field the message does not have.
Unmarshals(body, field) == body.json /\ DOMAIN body \subseteq {"json", field}

\* The field of the message after Unmarshal: "" when the body has none.
Field(body, field) == IF field \in DOMAIN body THEN body[field] ELSE << >>

\* writeConnectError: the status for a connect code.
writeConnectError(code) ==
    IF code = CodeInvalidArgument THEN StatusBadRequest
    ELSE IF code = CodeNotFound THEN StatusNotFound
    ELSE IF code = CodeInternal THEN StatusInternalServerError
    ELSE StatusInternalServerError

\* The handler answers without calling the service.
Answers(p, method, path, status) ==
    /\ Free(p)
    /\ last' = [op |-> "ServeHTTP", method |-> method, path |-> path,
                status |-> status]
    /\ calls' = calls + 1
    /\ UNCHANGED << tasks, mu, now, pc, req, issued, deleted, ui >>

\* handleAddTask up to the call of the service.
handleAddTask(p, method, path, body) ==
    IF ~Unmarshals(body, "text")
    THEN Answers(p, method, path, writeConnectError(CodeInvalidArgument))
    ELSE AddTaskInvoke(p, Field(body, "text"))

\* handleGetTasks up to the call of the service: the body is not read.
handleGetTasks(p, method, path, body) == GetTasksCall(p)

\* handleDeleteTask up to the call of the service.
handleDeleteTask(p, method, path, body) ==
    IF ~Unmarshals(body, "id")
    THEN Answers(p, method, path, writeConnectError(CodeInvalidArgument))
    ELSE DeleteTaskInvoke(p, Field(body, "id"))

\* GetTasks routed for GET as well as POST.
Allowed_get(method, methodName) ==
    method = "POST" \/ (method = "GET" /\ methodName = << "GetTasks" >>)

\* if r.Method != "POST" { http.Error(w, "Method not allowed", ...) }
Allowed(method, methodName) == method = "POST"

\* ServeHTTP: the answer to OPTIONS, the prefix of the path, the switch on
\* the method name with its check of the request method, and the handler
\* of the operation up to its call of the service.
ServeHTTP(p, method, path, body) ==
    /\ calls < MaxRequests
    /\ IF method = "OPTIONS"
       THEN Answers(p, method, path, StatusOK)
       ELSE IF ~HasPrefix(path, << TodoServiceName >>)
       THEN Answers(p, method, path, StatusNotFound)
       ELSE LET methodName == TrimPrefix(path, << TodoServiceName >>)
            IN  IF methodName \notin { << "AddTask" >>, << "GetTasks" >>,
                                        << "DeleteTask" >> }
                THEN Answers(p, method, path, StatusNotFound)
                ELSE IF ~Allowed(method, methodName)
                THEN Answers(p, method, path, StatusMethodNotAllowed)
                ELSE IF methodName = << "AddTask" >>
                THEN handleAddTask(p, method, path, body)
                ELSE IF methodName = << "GetTasks" >>
                THEN handleGetTasks(p, method, path, body)
                ELSE handleDeleteTask(p, method, path, body)

Request(p) ==
    \E method \in Methods : \E path \in Paths : \E body \in Bodies :
        ServeHTTP(p, method, path, body)

\* The server: every call of the service comes from the handler.
NextHTTP ==
    \/ \E p \in Procs : Request(p)
    \/ \E p \in Procs : AddTaskLock(p)
    \/ \E p \in Procs : AddTaskLoop(p)
    \/ \E p \in Procs : AddTaskInsert(p)
    \/ \E p \in Procs : GetTasksRLock(p)
    \/ \E p \in Procs : GetTasksRead(p)
    \/ \E p \in Procs : DeleteTaskLock(p)
    \/ \E p \in Procs : DeleteTaskCheck(p)
    \/ \E p \in Procs : DeleteTaskDelete(p)
    \/ Tick

SpecHTTP == Init /\ [][NextHTTP]_vars

(* ------------------------ the TodoList component ---------------------- *)

\* One browser shows TodoList and is the server's only client.  Each of
\* its requests is handled by the server in one step, at some moment
\* between its sending and the arrival of its response: AddTask and
\* DeleteTask act on the store inside one hold of the write lock, GetTasks
\* reads it inside one hold of the read lock.  Requests travel on
\* connections of their own, so requests are handled, and responses
\* arrive, in any order.

\* client.addTask, client.getTasks, client.deleteTask: the request on its
\* way to the server.  by is the function that awaits it.
Sent(n, kind, arg, by) ==
    [n |-> n, kind |-> kind, arg |-> arg, by |-> by, stage |-> "sent",
     ok |-> FALSE, list |-> << >>]

\* The response on its way back: the promise resolves (ok) or rejects.
Answered(m, ok, list) ==
    [m EXCEPT !.stage = "answered", !.ok = ok, !.list = list]

\* What can be typed into the input: maxLength={500}.
UITexts == { t \in TextInputs : StrLen(t) <= 500 }

\* fetchTasks up to its await: setError('') and the request.
fetchTasks(u, by) ==
    [u EXCEPT !.error = "",
              !.sent = @ + 1,
              !.flight = @ \cup { Sent(u.sent + 1, "GetTasks", << >>, by) }]

\* useEffect(() => { fetchTasks(); }, [fetchTasks]): once, after the first
\* render.
useEffect ==
    /\ ~ui.mounted
    /\ ui' = fetchTasks([ui EXCEPT !.mounted = TRUE], "useEffect")
    /\ UNCHANGED << tasks, mu, now, pc, req, last, calls, issued, deleted >>

\* addTask up to its await: the Add button and the Enter key are dead
\* while loading.  A user action is taken while its request and the
\* fetch that follows it are within MaxUIRequests.
addTask(newTask) ==
    /\ ui.mounted
    /\ ~ui.loading
    /\ LET taskText == TrimSpace(newTask)
       IN  IF taskText = << >>
           THEN ui' = [ui EXCEPT !.error = "Task text cannot be empty."]
           ELSE IF StrLen(taskText) > 500
           THEN ui' = [ui EXCEPT
                         !.error = "Task text cannot exceed 500 characters."]
           ELSE /\ ui.sent + 2 <= MaxUIRequests
                /\ ui' = [ui EXCEPT
                            !.loading = TRUE,
                            !.error = "",
                            !.sent = @ + 1,
                            !.flight = @ \cup { Sent(ui.sent + 1, "AddTask",
                                                     taskText, "addTask") }]
    /\ UNCHANGED << tasks, mu, now, pc, req, last, calls, issued, deleted >>

\* addTask from its await on: await fetchTasks() when the promise
\* resolved, else the catch; finally runs when the rest is over.
addTaskResumes(m) ==
    /\ m \in ui.flight
    /\ m.kind = "AddTask"
    /\ m.stage = "answered"
    /\ LET u == [ui EXCEPT !.flight = @ \ {m}]
       IN  IF m.ok
           THEN ui' = fetchTasks(u, "addTask")
           ELSE ui' = [u EXCEPT
                         !.error = "Failed to add task. Please try again.",
                         !.failed = TRUE,
                         !.loading = FALSE]
    /\ UNCHANGED << tasks, mu, now, pc, req, last, calls, issued, deleted >>

\* deleteTask up to its await, from the Delete button of a task shown.
deleteTask(id) ==
    /\ ui.mounted
    /\ \E k \in DOMAIN ui.tasks : ui.tasks[k].Id = id
    /\ IF id = << >> \/ TrimSpace(id) = << >>
       THEN ui' = [ui EXCEPT
                     !.error = "Invalid task ID: Cannot delete task with empty ID."]
       ELSE /\ ui.sent + 2 <= MaxUIRequests
            /\ ui' = [ui EXCEPT
                        !.error = "",
                        !.sent = @ + 1,
                        !.flight = @ \cup { Sent(ui.sent + 1, "DeleteTask",
                                                 id, "deleteTask") }]
    /\ UNCHANGED << tasks, mu, now, pc, req, last, calls, issued, deleted >>

\* deleteTask from its await on: await fetchTasks() or the catch.
deleteTaskResumes(m) ==
    /\ m \in ui.flight
    /\ m.kind = "DeleteTask"
    /\ m.stage = "answered"
    /\ LET u == [ui EXCEPT !.flight = @ \ {m}]
       IN  IF m.ok
           THEN ui' = fetchTasks(u, "deleteTask")
           ELSE ui' = [u EXCEPT !.error = "Failed to delete task",
                                !.failed = TRUE]
    /\ UNCHANGED << tasks, mu, now, pc, req, last, calls, issued, deleted >>

\* fetchTasks from its await on: setTasks(todoItems) or the catch; then
\* the function that awaited fetchTasks goes on, addTask to its finally.
fetchTasksResumes(m) ==
    /\ m \in ui.flight
    /\ m.kind = "GetTasks"
    /\ m.stage = "answered"
    /\ LET u == [ui EXCEPT !.flight = @ \ {m},
                           !.loading = IF m.by = "addTask" THEN FALSE ELSE @]
       IN  IF m.ok
           THEN ui' = [u EXCEPT !.tasks = m.list]
           ELSE ui' = [u EXCEPT
                         !.error = "Failed to fetch tasks. Please try again.",
                         !.failed = TRUE]
    /\ UNCHANGED << tasks, mu, now, pc, req, last, calls, issued, deleted >>

\* The server handles an AddTask request: validateTaskText, the retry loop
\* and the insertion.
ServesAddTask(m) ==
    /\ m \in ui.flight
    /\ m.kind = "AddTask"
    /\ m.stage = "sent"
    /\ IF validateTaskText(m.arg) # Nil
       THEN /\ ui' = [ui EXCEPT !.flight = (@ \ {m}) \cup
                                           { Answered(m, FALSE, << >>) }]
            /\ UNCHANGED << tasks, issued >>
       ELSE \E out \in RetryLoop(0) :
              IF out.free
              THEN /\ tasks' = Insert(Task(out.id, TrimSpace(m.arg), now))
                   /\ issued' = [issued EXCEPT ![out.id] = @ + 1]
                   /\ ui' = [ui EXCEPT !.flight = (@ \ {m}) \cup
                                           { Answered(m, TRUE, << >>) }]
              ELSE /\ ui' = [ui EXCEPT !.flight = (@ \ {m}) \cup
                                           { Answered(m, FALSE, << >>) }]
                   /\ UNCHANGED << tasks, issued >>
    /\ UNCHANGED << mu, now, pc, req, last, calls, deleted >>

\* The server handles a GetTasks request: the tasks, newest first.
ServesGetTasks(m) ==
    /\ m \in ui.flight
    /\ m.kind = "GetTasks"
    /\ m.stage = "sent"
    /\ \E list \in SortedTasks :
         ui' = [ui EXCEPT !.flight = (@ \ {m}) \cup { Answered(m, TRUE, list) }]
    /\ UNCHANGED << tasks, mu, now, pc, req, last, calls, issued, deleted >>

\* The server handles a DeleteTask request: the check of the id, the
\* lookup and the delete.
ServesDeleteTask(m) ==
    /\ m \in ui.flight
    /\ m.kind = "DeleteTask"
    /\ m.stage = "sent"
    /\ IF InvalidID(m.arg) \/ ~Exists(m.arg)
       THEN /\ ui' = [ui EXCEPT !.flight = (@ \ {m}) \cup
                                           { Answered(m, FALSE, << >>) }]
            /\ UNCHANGED << tasks, deleted >>
       ELSE /\ tasks' = Remove(m.arg)
            /\ deleted' = deleted \cup {m.arg}
            /\ ui' = [ui EXCEPT !.flight = (@ \ {m}) \cup
                                           { Answered(m, TRUE, << >>) }]
    /\ UNCHANGED << mu, now, pc, req, last, calls, issued >>

\* The page and its server.
NextUI ==
    \/ useEffect
    \/ \E newTask \in UITexts : addTask(newTask)
    \/ \E id \in GenIDs : deleteTask(id)
    \/ \E m \in ui.flight : addTaskResumes(m)
    \/ \E m \in ui.flight : deleteTaskResumes(m)
    \/ \E m \in ui.flight : fetchTasksResumes(m)
    \/ \E m \in ui.flight : ServesAddTask(m)
    \/ \E m \in ui.flight : ServesGetTasks(m)
    \/ \E m \in ui.flight : ServesDeleteTask(m)

SpecUI == Init /\ [][NextUI]_vars

(* ------------------------- what the claims use ------------------------ *)

\* The text is empty once white space is cut from both ends.
TrimsToEmpty(s) == \A k \in 1..Len(s) : s[k].c \in Whitespace

\* No white space at either end.
IsTrimmed(s) ==
    s = << >> \/ (s[1].c \notin Whitespace /\ s[Len(s)].c \notin Whitespace)

\* Length of the text between its first and last character that is not
\* white space.
TrimmedLen(s) == StrLen(TrimSpace(s))

Ids(list) == { list[k].Id : k \in DOMAIN list }

RECURSIVE SumOver(_, _)
SumOver(f, S) ==
    IF S = {} THEN 0
    ELSE LET x == CHOOSE y \in S : TRUE IN f[x] + SumOver(f, S \ {x})

\* Number of AddTask calls that have returned a task.
Added == SumOver(issued, DOMAIN issued)

Size == Cardinality(DOMAIN tasks)

AddReturned == last.op = "AddTask"

GetReturned == last.op = "GetTasks"

DeleteReturned == last.op = "DeleteTask"

\* AddTask failed with Internal after ten candidates that all collided.
AddExhausted ==
    /\ last.op = "AddTask"
    /\ last.code = CodeInternal
    /\ last.tries = MaxAttempts

\* AddTask ended in the panic of generateID, whose random source failed.
AddPanicked ==
    /\ last.op = "AddTask"
    /\ last.code = "panic"

\* AddTask returned a task with the trimmed text, an id and a timestamp,
\* and the task is in the store under its id.
AddSucceeded ==
    /\ last.op = "AddTask"
    /\ last.code = "ok"
    /\ last.msg.task.Text = TrimSpace(last.req.text)
    /\ last.msg.task.Id # << >>
    /\ last.msg.task.CreatedAt # 0
    /\ last.msg.task.Id \in DOMAIN tasks
    /\ tasks[last.msg.task.Id] = last.msg.task

(* -------------------------------- C1 ---------------------------------- *)

C2_BlankTextRejected ==
    [][ (last'.op = "AddTask" /\ TrimsToEmpty(last'.req.text))
        => /\ last'.code = CodeInvalidArgument
           /\ tasks' = tasks ]_vars

\* A text of white space only was rejected while the store held a task.
C2_Witness ==
    /\ AddReturned
    /\ last.req.text # << >>
    /\ TrimsToEmpty(last.req.text)
    /\ last.code = CodeInvalidArgument
    /\ Size >= 1

(* -------------------------------- C3 ---------------------------------- *)

C4_AllConcurrentAddsSucceed ==
    /\ AddReturned => last.code = "ok"
    /\ \A id \in DOMAIN issued : issued[id] <= 1
    /\ (\A p \in Procs : pc[p] = "idle") => Size = calls

\* C4 amended: of AddTask calls with valid text that run concurrently, each
\* succeeds or, when ten candidate ids in a row were taken, fails with
\* Internal, or, when the random source fails, panics; the ids of those
\* that succeed are pairwise distinct and the
\* store holds exactly one task for each of them (no lost update, no
\* duplicate id).
C4_ConcurrentAddsDistinctIds ==
    /\ AddReturned => (AddSucceeded \/ AddExhausted \/ AddPanicked)
    /\ \A id \in DOMAIN issued : issued[id] <= 1
    /\ DOMAIN tasks = { id \in DOMAIN issued : issued[id] = 1 }
    /\ Size = Added

\* Two concurrent calls have succeeded while a third waits for the lock.
C4_Witness ==
    /\ AddSucceeded
    /\ Size = 2
    /\ \E p \in Procs : pc[p] = "add_lock"

(* -------------------------------- C5 ---------------------------------- *)

\* C5: every entry of the store is keyed by the id of the task it holds,
\* no two tasks share an id, and every stored text is trimmed and has 1 to
\* 500 characters.
C5_StoreInvariant ==
    /\ \A k \in DOMAIN tasks :
        /\ tasks[k].Id = k
        /\ IsTrimmed(tasks[k].Text)
        /\ StrLen(tasks[k].Text) >= MinTaskTextLength
        /\ StrLen(tasks[k].Text) <= MaxTaskTextLength
    /\ \A k, m \in DOMAIN tasks : tasks[k].Id = tasks[m].Id => k = m

\* The store holds two tasks, one with a text of 500 characters that came
\* padded with white space.
C5_Witness ==
    /\ Size = 2
    /\ \E k \in DOMAIN tasks : StrLen(tasks[k].Text) = MaxTaskTextLength
    /\ \E k \in DOMAIN tasks : StrLen(tasks[k].Text) < MaxTaskTextLength

(* -------------------------------- C6 ---------------------------------- *)

\* C6: GetTasks returns each stored task once, none missing, all with
\* distinct ids; after N successful AddTask calls and no deletion that is
\* exactly N tasks.
C6_GetTasksReturnsEveryTaskOnce ==
    GetReturned =>
        LET l == last.msg.tasks
        IN  /\ Len(l) = Size
            /\ { l[k] : k \in DOMAIN l } = { tasks[id] : id \in DOMAIN tasks }
            /\ \A k, m \in DOMAIN l : l[k].Id = l[m].Id => k = m
            /\ deleted = {} => Len(l) = Added

\* GetTasks returned two tasks after two AddTask calls and no deletion.
C6_Witness ==
    /\ GetReturned
    /\ Len(last.msg.tasks) = 2
    /\ Added = 2
    /\ deleted = {}

(* -------------------------------- C7 ---------------------------------- *)

\* C7: the sequence GetTasks returns is ordered by createdAt descending.
C7_GetTasksNewestFirst ==
    GetReturned =>
        \A k, m \in DOMAIN last.msg.tasks :
            k < m => last.msg.tasks[k].CreatedAt >= last.msg.tasks[m].CreatedAt

\* GetTasks returned two tasks created in different seconds.
C7_Witness ==
    /\ GetReturned
    /\ Len(last.msg.tasks) >= 2
    /\ last.msg.tasks[1].CreatedAt > last.msg.tasks[2].CreatedAt

(* -------------------------------- C8 ---------------------------------- *)

\* C8: two GetTasks calls with no AddTask or DeleteTask between them return
\* the tasks in the same order, also when tasks have the same createdAt.
\* (Here: two calls that return in consecutive steps.)
C8_RepeatedGetTasksSameOrder ==
    [][ (last.op = "GetTasks" /\ last'.op = "GetTasks")
        => last'.msg.tasks = last.msg.tasks ]_vars

(* -------------------------------- C9 ---------------------------------- *)

\* C9 as stated: DeleteTask with the id of a task in the store succeeds
\* with success = true and removes it, and a GetTasks that starts after it
\* has returned does not contain that id.
C9_DeletedIdNeverListedAgain ==
    [][ /\ (last'.op = "DeleteTask" /\ last'.req.id \in DOMAIN tasks)
           => /\ last'.code = "ok"
              /\ last'.msg.success
              /\ last'.req.id \notin DOMAIN tasks'
        /\ last'.op = "GetTasks"
           => Ids(last'.msg.tasks) \cap last'.req.deletedBefore = {} ]_vars

\* C9 amended: DeleteTask with the id of a task in the store succeeds with
\* success = true and removes it; a GetTasks that starts after it has
\* returned contains that id only if AddTask has since stored a new task
\* under the same id.
C9_DeletedIdListedOnlyIfReissued ==
    [][ /\ (last'.op = "DeleteTask" /\ last'.req.id \in DOMAIN tasks)
           => /\ last'.code = "ok"
              /\ last'.msg.success
              /\ last'.req.id \notin DOMAIN tasks'
        /\ last'.op = "GetTasks"
           => \A id \in Ids(last'.msg.tasks) \cap last'.req.deletedBefore :
                 /\ issued[id] >= 2
                 /\ id \in DOMAIN tasks ]_vars

\* GetTasks, called after a task had been deleted, returned the task that
\* is left.
C9_Witness ==
    /\ GetReturned
    /\ last.req.deletedBefore # {}
    /\ Len(last.msg.tasks) = 1
    /\ Ids(last.msg.tasks) \cap last.req.deletedBefore = {}

(* -------------------------------- C10 --------------------------------- *)

\* C10: DeleteTask fails with InvalidArgument when the id is empty or white
\* space only and with NotFound when the id is not a key of the store; in
\* both cases the store is left as it was.
C10_DeleteTaskFailures ==
    [][ last'.op = "DeleteTask"
        => /\ TrimsToEmpty(last'.req.id)
              => /\ last'.code = CodeInvalidArgument
                 /\ tasks' = tasks
           /\ (~TrimsToEmpty(last'.req.id) /\ last'.req.id \notin DOMAIN tasks)
              => /\ last'.code = CodeNotFound
                 /\ tasks' = tasks ]_vars

\* DeleteTask of an id that was never issued returned NotFound while the
\* store held a task.
C10_Witness ==
    /\ DeleteReturned
    /\ last.code = CodeNotFound
    /\ last.req.id = NeverIssued
    /\ Size >= 1

\* DeleteTask of an id of white space only returned InvalidArgument while
\* the store held a task.
C10_WitnessBlank ==
    /\ DeleteReturned
    /\ last.code = CodeInvalidArgument
    /\ last.req.id # << >>
    /\ Size >= 1

(* -------------------------------- C11 --------------------------------- *)

\* C11: DeleteTask called twice with the id of a task in the store succeeds
\* the first time and removes the task, and fails with NotFound the second
\* time, the store left as it was: a DeleteTask of an id that is in the
\* store succeeds and removes it, one of an id that was deleted and is not
\* in the store fails with NotFound, and a deleted id is only stored again
\* by an AddTask that returns it.
C11_SecondDeleteNotFound ==
    [][ /\ (last'.op = "DeleteTask" /\ last'.req.id \in DOMAIN tasks)
           => /\ last'.code = "ok"
              /\ last'.msg.success
              /\ last'.req.id \notin DOMAIN tasks'
              /\ last'.req.id \in deleted'
        /\ (last'.op = "DeleteTask" /\ last'.req.id \in deleted
              /\ last'.req.id \notin DOMAIN tasks)
           => /\ last'.code = CodeNotFound
              /\ tasks' = tasks
        /\ \A id \in deleted :
             (id \notin DOMAIN tasks /\ id \in DOMAIN tasks')
             => /\ last'.op = "AddTask"
                /\ last'.code = "ok"
                /\ last'.msg.task.Id = id ]_vars

\* The second DeleteTask of an id returned NotFound while another task was
\* in the store.
C11_Witness ==
    /\ DeleteReturned
    /\ last.code = CodeNotFound
    /\ last.req.id \in deleted
    /\ Size = 1

(* -------------------------------- C12 --------------------------------- *)

\* C12: a candidate id that is a key of the store is never written over:
\* a successful AddTask stores its task under an id that was free and
\* leaves every other entry as it was; AddTask fails with Internal only
\* after 10 candidates that all were keys of the store, and then leaves the
\* store as it was; when every id the generator can produce is a key of the
\* store, an AddTask with valid text stores nothing.
C12_CollisionRetriesThenInternal ==
    [][ last'.op = "AddTask"
        => /\ last'.code = "ok"
              => /\ last'.msg.task.Id \notin DOMAIN tasks
                 /\ \A k \in DOMAIN tasks :
                        k \in DOMAIN tasks' /\ tasks'[k] = tasks[k]
           /\ last'.code = CodeInternal
              => /\ last'.tries = MaxAttempts
                 /\ generateID \cap DOMAIN tasks # {}
                 /\ tasks' = tasks
           /\ generateID \subseteq DOMAIN tasks
              => /\ last'.code # "ok"
                 /\ tasks' = tasks ]_vars

\* AddTask failed with Internal after 10 candidates although one id of the
\* generator was free.
C12_Witness ==
    /\ AddExhausted
    /\ Size = 1
    /\ ~(generateID \subseteq DOMAIN tasks)

(* -------------------------------- C13 --------------------------------- *)

\* Goroutines between Lock and Unlock of AddTask or DeleteTask.
Writers ==
    { p \in Procs : pc[p] \in {"add_loop", "add_insert", "del_check", "del_delete"} }

\* Goroutines between RLock and RUnlock of GetTasks.
Readers == { p \in Procs : pc[p] = "get_read" }

\* C13: at most one goroutine is in the critical section of AddTask or
\* DeleteTask, and while one is, none is in the critical section of
\* GetTasks; the lock is held by exactly the goroutines in their critical
\* sections.
C13_WritersExclusive ==
    /\ Cardinality(Writers) <= 1
    /\ Writers # {} => Readers = {}
    /\ mu.readers = Readers
    /\ Writers = IF mu.writer = 0 THEN {} ELSE {mu.writer}

\* Two GetTasks calls hold the read lock at the same time.
C13_Witness ==
    /\ Cardinality(Readers) >= 2
    /\ Cardinality(mu.readers) >= 2
    /\ Size >= 1

(* -------------------------------- C14 --------------------------------- *)

\* C14: under fair scheduling every call that was started comes to its end,
\* and whenever no goroutine is inside a critical section the lock is free
\* (every way out of AddTask, GetTasks and DeleteTask releases it).
C14_EveryCallEnds ==
    /\ \A p \in Procs : (pc[p] # "idle") ~> (pc[p] = "idle")
    /\ []((Writers = {} /\ Readers = {}) => mu = [writer |-> 0, readers |-> {}])

\* A call waits for the lock while another goroutine holds it.
C14_Witness ==
    /\ \E p \in Procs : pc[p] \in {"add_lock", "del_lock", "get_rlock"}
    /\ mu.writer # 0

(* -------------------------------- C15 --------------------------------- *)

\* C15: a task in the store stays there with the same id, text and
\* createdAt in every step, except the step in which a DeleteTask that
\* names its id returns success.
C15_TaskImmutableUntilDeleted ==
    [][ \A k \in DOMAIN tasks :
          \/ k \in DOMAIN tasks' /\ tasks'[k] = tasks[k]
          \/ /\ last'.op = "DeleteTask"
             /\ last'.code = "ok"
             /\ last'.req.id = k
             /\ k \notin DOMAIN tasks' ]_vars

\* A DeleteTask succeeded and the other task is still in the store.
C15_Witness ==
    /\ DeleteReturned
    /\ last.code = "ok"
    /\ last.req.id \notin DOMAIN tasks
    /\ Size = 1

(* -------------------------------- C16 --------------------------------- *)

\* C16: every call ends with success or with a failure of kind
\* InvalidArgument, NotFound or Internal, whatever its input and whatever
\* the random source of the id generator returns.
C16_EveryCallEndsTyped ==
    last.op # "none"
        => last.code \in {"ok", CodeInvalidArgument, CodeNotFound, CodeInternal}

(* -------------------------------- C17 --------------------------------- *)

\* C17: GetTasks always returns success, and the empty sequence when the
\* store is empty.
C17_GetTasksNeverFails ==
    GetReturned
        => /\ last.code = "ok"
           /\ tasks = << >> => last.msg.tasks = << >>

\* GetTasks returned the empty sequence from a store emptied by DeleteTask.
C17_Witness ==
    /\ GetReturned
    /\ last.code = "ok"
    /\ last.msg.tasks = << >>
    /\ deleted # {}

(* -------------------------------- C18 --------------------------------- *)

\* C18: when the service returns an error, the handler answers with the
\* status of the error's kind: 400 for InvalidArgument, 404 for NotFound,
\* 500 for Internal.
C18_StatusFollowsErrorKind ==
    last.op \in {"AddTask", "GetTasks", "DeleteTask"}
        => /\ last.code = CodeInvalidArgument => last.status = StatusBadRequest
           /\ last.code = CodeNotFound => last.status = StatusNotFound
           /\ last.code = CodeInternal => last.status = StatusInternalServerError

(* -------------------------------- C19 --------------------------------- *)

\* C19: a GET request to /todo.v1.TodoService/GetTasks is served: the
\* handler calls GetTasks and answers with the list, so it is never
\* answered without a call of the service.
C19_GetRequestServed ==
    (last.op = "ServeHTTP" /\ last.method = "GET")
        => last.path # << TodoServiceName, "GetTasks" >>

(* -------------------------------- C20 --------------------------------- *)

\* A step of a GetTasks call.
GetTasksStep ==
    \E p \in Procs :
        /\ pc'[p] # pc[p]
        /\ pc[p] \in {"get_rlock", "get_read"} \/ pc'[p] \in {"get_rlock", "get_read"}

\* C20: a successful AddTask adds one entry, under an id that was free, a
\* successful DeleteTask removes the entry of its id and no other, both
\* leave every other entry as it was, and no step of GetTasks changes the
\* store.
C20_OnlyTheNamedEntryChanges ==
    [][ /\ (last'.op = "AddTask" /\ last'.code = "ok")
           => /\ last'.msg.task.Id \notin DOMAIN tasks
              /\ DOMAIN tasks' = DOMAIN tasks \cup {last'.msg.task.Id}
              /\ \A k \in DOMAIN tasks : tasks'[k] = tasks[k]
        /\ (last'.op = "DeleteTask" /\ last'.code = "ok")
           => /\ last'.req.id \in DOMAIN tasks
              /\ DOMAIN tasks' = DOMAIN tasks \ {last'.req.id}
              /\ \A k \in DOMAIN tasks' : tasks'[k] = tasks[k]
        /\ GetTasksStep => tasks' = tasks ]_vars

\* An AddTask stored a second task after another had been deleted.
C20_Witness ==
    /\ AddSucceeded
    /\ Size = 2
    /\ deleted # {}

(* -------------------------------- C21 --------------------------------- *)

\* C21: the tasks a GetTasks call returns are the contents of the store at
\* one instant between its invocation and its return: while the call ranges
\* over the map no step changes the store, and what it returns is the store
\* as it is when it returns.
C21_GetTasksIsSnapshot ==
    [][ /\ (\E p \in Procs : pc[p] = "get_read") => tasks' = tasks
        /\ last'.op = "GetTasks"
           => { last'.msg.tasks[k] : k \in DOMAIN last'.msg.tasks }
                = { tasks'[id] : id \in DOMAIN tasks' } ]_vars

\* GetTasks returned the store's task while a writer, called during the
\* read, waits for the lock.
C21_Witness ==
    /\ GetReturned
    /\ Len(last.msg.tasks) >= 1
    /\ \E p \in Procs : pc[p] \in {"add_lock", "del_lock"}

(* -------------------------------- C22 --------------------------------- *)

\* C22 as stated: an id whose task was deleted is never a key of the store
\* again.
C22_DeletedIdNeverPresentAgain == deleted \cap DOMAIN tasks = {}

\* C22 amended: an id becomes present only in the step in which an AddTask
\* returns a new task under it, and absent only in the step in which a
\* DeleteTask of it returns success; so a task that was deleted does not
\* come back, and its id is present again only if a later AddTask draws
\* the same id for a new task.
C22_PresentByAddAbsentByDelete ==
    [][ /\ \A id \in DOMAIN tasks' \ DOMAIN tasks :
              /\ last'.op = "AddTask"
              /\ last'.code = "ok"
              /\ last'.msg.task.Id = id
              /\ issued'[id] = issued[id] + 1
        /\ \A id \in DOMAIN tasks \ DOMAIN tasks' :
              /\ last'.op = "DeleteTask"
              /\ last'.code = "ok"
              /\ last'.req.id = id
              /\ id \in deleted' ]_vars

\* An AddTask made a deleted id present again, for its new task.
C22_Witness ==
    /\ AddSucceeded
    /\ last.msg.task.Id \in deleted
    /\ issued[last.msg.task.Id] = 2

(* -------------------------------- C23 --------------------------------- *)

\* C23: from the iteration of AddTask that finds its candidate id absent to
\* the insertion of the task, the goroutine holds the write lock, the id
\* stays absent and no step changes the store.
C23_CheckAndInsertUnderOneLock ==
    [][ \A p \in Procs :
          pc[p] = "add_insert"
          => /\ mu.writer = p
             /\ mu.readers = {}
             /\ req[p].task.Id \notin DOMAIN tasks
             /\ pc'[p] = "add_insert" => tasks' = tasks
             /\ tasks' # tasks => tasks' = Insert(req[p].task) ]_vars

\* A candidate id was found absent while the store holds a task and
\* another call waits for the lock.
C23_Witness ==
    /\ \E p \in Procs : pc[p] = "add_insert"
    /\ \E q \in Procs : pc[q] \in {"add_lock", "del_lock", "get_rlock"}
    /\ Size >= 1

(* -------------------------------- C24 --------------------------------- *)

\* C24: a task is inserted with a createdAt that is not less than that of
\* any task in the store, so insertion order and timestamp order agree, and
\* GetTasks lists no task before one with a greater createdAt.
C24_InsertionOrderIsTimeOrder ==
    [][ /\ (last'.op = "AddTask" /\ last'.code = "ok")
           => \A k \in DOMAIN tasks :
                 tasks[k].CreatedAt <= last'.msg.task.CreatedAt
        /\ last'.op = "GetTasks"
           => \A k, m \in DOMAIN last'.msg.tasks :
                 last'.msg.tasks[k].CreatedAt < last'.msg.tasks[m].CreatedAt
                 => m < k ]_vars

\* A task was inserted in a later second than the task in the store, while
\* another AddTask waited for the lock.
C24_Witness ==
    /\ AddSucceeded
    /\ \E k \in DOMAIN tasks : tasks[k].CreatedAt < last.msg.task.CreatedAt
    /\ \E p \in Procs : pc[p] = "add_lock"

(* -------------------------------- C25 --------------------------------- *)

\* C25: of the DeleteTask calls for the id of a task in the store, with no
\* AddTask storing a task under that id again (the id was issued once),
\* the first to return succeeds and every other returns NotFound.
C25_OneConcurrentDeleteSucceeds ==
    [][ (last'.op = "DeleteTask" /\ last'.req.id \in DOMAIN issued
           /\ issued[last'.req.id] = 1)
        => IF last'.req.id \in deleted
           THEN last'.code = CodeNotFound /\ tasks' = tasks
           ELSE /\ last'.code = "ok"
                /\ last'.req.id \in deleted'
                /\ last'.req.id \notin DOMAIN tasks' ]_vars

\* A DeleteTask succeeded while another DeleteTask of the same id waits for
\* the lock.
C25_Witness ==
    /\ DeleteReturned
    /\ last.code = "ok"
    /\ \E p \in Procs :
          /\ pc[p] = "del_lock"
          /\ req[p].id = last.req.id
    /\ issued[last.req.id] = 1

(* -------------------------------- C26 --------------------------------- *)

\* C26: DeleteTask looks the task up by the id as given: an id with white
\* space around the id of a task in the store gets NotFound, and the store
\* is left as it was.
C26_PaddedIdNotFound ==
    [][ (last'.op = "DeleteTask"
           /\ last'.req.id # TrimSpace(last'.req.id)
           /\ TrimSpace(last'.req.id) \in DOMAIN tasks)
        => /\ last'.code = CodeNotFound
           /\ tasks' = tasks ]_vars

\* DeleteTask of the padded id of a task in the store returned NotFound.
C26_Witness ==
    /\ DeleteReturned
    /\ last.code = CodeNotFound
    /\ last.req.id # TrimSpace(last.req.id)
    /\ TrimSpace(last.req.id) \in DOMAIN tasks

(* -------------------------------- C27 --------------------------------- *)

\* AddTask with a text that fails validation returns InvalidArgument in the
\* step in which it is called, the lock untouched.
InvalidAddReturns(p) ==
    \E text \in TextInputs :
        /\ TrimmedLen(text) \notin MinTaskTextLength..MaxTaskTextLength
        /\ AddTaskInvoke(p, text)
        /\ last'.code = CodeInvalidArgument
        /\ mu' = mu
        /\ pc' = pc

\* DeleteTask with a blank id returns InvalidArgument in the step in which
\* it is called, the lock untouched.
InvalidDeleteReturns(p) ==
    \E id \in IdInputs :
        /\ TrimsToEmpty(id)
        /\ DeleteTaskInvoke(p, id)
        /\ last'.code = CodeInvalidArgument
        /\ mu' = mu
        /\ pc' = pc

\* C27: an AddTask or DeleteTask call that fails validation never takes
\* the lock: whoever holds the lock, the call can return at once (it waits
\* for nothing), and it returns InvalidArgument in the step in which it is
\* called, leaving the lock, the other goroutines and the store as they
\* were (it delays nothing).
C27_InvalidCallNeverLocks ==
    /\ [](\A p \in Procs :
            Free(p) => /\ ENABLED InvalidAddReturns(p)
                       /\ ENABLED InvalidDeleteReturns(p))
    /\ [][ \/ /\ last'.op = "AddTask"
              /\ TrimmedLen(last'.req.text)
                     \notin MinTaskTextLength..MaxTaskTextLength
           \/ /\ last'.op = "DeleteTask"
              /\ TrimsToEmpty(last'.req.id)
           => /\ last'.code = CodeInvalidArgument
              /\ mu' = mu
              /\ pc' = pc
              /\ tasks' = tasks ]_vars

\* A call that failed validation returned while another goroutine held the
\* write lock.
C27_Witness ==
    /\ last.op \in {"AddTask", "DeleteTask"}
    /\ last.code = CodeInvalidArgument
    /\ mu.writer # 0

(* -------------------------------- C28 --------------------------------- *)

\* The paths of the three operations.
ServicePaths ==
    { << TodoServiceName, "AddTask" >>, << TodoServiceName, "GetTasks" >>,
      << TodoServiceName, "DeleteTask" >> }

\* The body decodes as the request message of the operation of the path.
Decodes(path, body) ==
    /\ body.json
    /\ DOMAIN body \subseteq
         (IF path = << TodoServiceName, "AddTask" >> THEN {"json", "text"}
          ELSE IF path = << TodoServiceName, "DeleteTask" >> THEN {"json", "id"}
          ELSE {"json"})

\* The status of a request answered without a call of the service.
Refusal(method, path) ==
    IF method = "OPTIONS" THEN StatusOK
    ELSE IF path \notin ServicePaths THEN StatusNotFound
    ELSE IF method # "POST" THEN StatusMethodNotAllowed
    ELSE StatusBadRequest

\* The request is answered with the status of its refusal and nothing else
\* changes.
Refused(method, path) ==
    /\ last' = [op |-> "ServeHTTP", method |-> method, path |-> path,
                status |-> Refusal(method, path)]
    /\ UNCHANGED << tasks, mu, pc, req >>

\* The requests the handler passes to the service, as stated: POST to one
\* of the three paths with a body that decodes.
DecodedPost(method, path, body) ==
    /\ method = "POST"
    /\ path \in ServicePaths
    /\ Decodes(path, body)

\* The same, the body of a GetTasks request left unread.
ServedPost(method, path, body) ==
    /\ method = "POST"
    /\ path \in ServicePaths
    /\ \/ path = << TodoServiceName, "GetTasks" >>
       \/ Decodes(path, body)

\* C28 as stated: the handler calls the service only for a POST request to
\* one of the three paths whose body decodes; every other request is
\* answered (OPTIONS 200, unknown path 404, other method 405, undecodable
\* body 400) without a call of the service, the store unchanged.  A step
\* of the handler either answers, and then the request it answered is in
\* last', or calls the service.
C28_ServiceOnlyForDecodedPost ==
    [][ \A p \in { q \in Procs : Free(q) /\ calls' # calls } :
        IF last'.op = "ServeHTTP"
        THEN \A body \in Bodies :
               ServeHTTP(p, last'.method, last'.path, body)
               => /\ ~DecodedPost(last'.method, last'.path, body)
                  /\ Refused(last'.method, last'.path)
        ELSE \A method \in Methods : \A path \in Paths : \A body \in Bodies :
               ~DecodedPost(method, path, body)
               => ~ServeHTTP(p, method, path, body) ]_vars

\* C28 amended: the handler calls the service only for a POST request to
\* AddTask or DeleteTask whose body decodes and for a POST request to
\* GetTasks, whose body is not read; every other request is answered
\* (OPTIONS 200, unknown path 404, other method 405, undecodable body 400)
\* without a call of the service, the store unchanged.
C28_ServiceOnlyForPost ==
    [][ \A p \in { q \in Procs : Free(q) /\ calls' # calls } :
        IF last'.op = "ServeHTTP"
        THEN \A body \in Bodies :
               ServeHTTP(p, last'.method, last'.path, body)
               => /\ ~ServedPost(last'.method, last'.path, body)
                  /\ Refused(last'.method, last'.path)
        ELSE \A method \in Methods : \A path \in Paths : \A body \in Bodies :
               ~ServedPost(method, path, body)
               => ~ServeHTTP(p, method, path, body) ]_vars

\* A POST with a body that does not decode was answered 400 while the
\* store held a task.
C28_Witness ==
    /\ last.op = "ServeHTTP"
    /\ last.method = "POST"
    /\ last.status = StatusBadRequest
    /\ Size >= 1

(* -------------------------------- C29 --------------------------------- *)

\* The tasks of a list, whatever their order.
TasksOf(list) == { list[k] : k \in DOMAIN list }

\* Every request the page sent has completed, none of them with an error.
AllCompleted == ui.mounted /\ ui.flight = {} /\ ~ui.failed

\* C29: once every add, delete and fetch request under way has completed
\* with no error, the list the page shows holds the tasks of the server's
\* store, in whatever order the requests were handled and their responses
\* arrived.
C29_ShownListIsServerList ==
    AllCompleted => TasksOf(ui.tasks) = TasksOf(tasks)

=============================================================================
